---- MODULE Spec2Model ----
(***************************************************************************)
(* bb8-libsql: LibsqlConnectionManager<T>, a bb8::ManageConnection for     *)
(* libsql connections (src/src/lib.rs, src/src/errors.rs).                 *)
(*                                                                         *)
(* The caller constructs a manager with one of four constructors,          *)
(* optionally configures it with the builder mutators, and hands a copy of *)
(* it to the pool.  The pool then runs connect() futures (one per task),   *)
(* and calls is_valid() and has_broken() on the connections it holds.      *)
(* The libsql engine is the environment: every engine call may succeed or  *)
(* fail, and a connection's transport may be closed at any time.           *)
(***************************************************************************)
EXTENDS Naturals, Sequences, FiniteSets, TLC

\* ---- bounds ------------------------------------------------------------
MaxTasks == 2   \* connect() futures the pool starts
MaxExt == 2     \* longest configured extension list

\* ---- input domains -----------------------------------------------------
Tasks == 1..MaxTasks
Paths == {"sync.db"}
Urls == {"libsql://host"}
Tokens == {"token"}
Intervals == {60}
\* extension library paths: path i stands for the i-th library of the
\* extension directory
ExtPaths == 1..MaxExt

Ascending(n) == [i \in 1..n |-> i]
Descending(n) == [i \in 1..n |-> n + 1 - i]

\* Vec<PathBuf> values a caller passes to extensions(): empty, or the first n
\* libraries in either order
ExtLists == {Ascending(n) : n \in 0..MaxExt} \cup {Descending(n) : n \in 0..MaxExt}

\* Vec<PathBuf> values a caller passes to extensions() on the value it kept
\* after it gave the pool its manager
LateExtLists == {<<>>}

\* Option<T> is a sequence of length at most one
None == <<>>
Some(v) == <<v>>

\* ---- data types (lib.rs:60-91) ------------------------------------------
Local(path, extensions) ==
    [kind |-> "Local", path |-> path, url |-> "-", token |-> "-",
     sync_interval |-> None, extensions |-> extensions, fields |-> {"path", "extensions"}]

Remote(url, token) ==
    [kind |-> "Remote", path |-> "-", url |-> url, token |-> token,
     sync_interval |-> None, extensions |-> None, fields |-> {"url", "token"}]

LocalReplica(path, extensions) ==
    [kind |-> "LocalReplica", path |-> path, url |-> "-", token |-> "-",
     sync_interval |-> None, extensions |-> extensions, fields |-> {"path", "extensions"}]

RemoteReplica(path, url, token, sync_interval, extensions) ==
    [kind |-> "RemoteReplica", path |-> path, url |-> url, token |-> token,
     sync_interval |-> sync_interval, extensions |-> extensions,
     fields |-> {"path", "url", "token", "sync_interval", "extensions"}]

\* no manager value (before construction / before the pool is built)
NoMgr ==
    [kind |-> "-", path |-> "-", url |-> "-", token |-> "-",
     sync_interval |-> None, extensions |-> None, fields |-> {}]


\* ---- errors (errors.rs) --------------------------------------------------
\* a libsql::Error, identified by the engine call that produced it
EngineError(op, arg) == [op |-> op, arg |-> arg]

NoError == [variant |-> "-", source |-> EngineError("-", 0)]

\* variant of the conversion that picks the other arm of the enum
From_libsql_as_recv(value) == [variant |-> "RecvError", source |-> value]

\* impl From<libsql::Error> for ConnectionManagerError
From_libsql(value) == [variant |-> "LibsqlError", source |-> value]

\* Result<Connection, ConnectionManagerError>; conn 0 is "no connection"
Pending == [tag |-> "Pending", conn |-> 0, err |-> NoError]
Ok(c) == [tag |-> "Ok", conn |-> c, err |-> NoError]
Err(e) == [tag |-> "Err", conn |-> 0, err |-> e]

\* ---- engine-side state of a libsql::Connection --------------------------
\* a connection as db.connect() hands it out: extension loading off
NewConnection == [ext_enabled |-> FALSE, healthy |-> TRUE, dropped |-> FALSE, log |-> <<>>]

Event(op, arg, ok) == [op |-> op, arg |-> arg, ok |-> ok]

NoBuilder == NoMgr

NoOp ==
    [op |-> "-", conn |-> 0, stmt |-> "-", stmt_ok |-> FALSE, ok |-> FALSE,
     err |-> NoError, broken |-> FALSE, after_failed_valid |-> FALSE]

VARIABLES
    mgr,        \* the manager value the caller owns
    poolMgr,    \* the manager value the pool owns (bb8 takes it by value)
    pc,         \* position of each connect() future
    builder,    \* libsql::Builder of each connect() future
    conn,       \* the connection a connect() future has opened (0: none)
    ext,        \* the cloned extension list the closure iterates
    idx,        \* position of the `for path in ext` loop
    result,     \* what each connect() future returned
    conns,      \* engine-side state of every connection ever opened
    lastOp      \* the last is_valid / has_broken call and its outcome

vars == <<mgr, poolMgr, pc, builder, conn, ext, idx, result, conns, lastOp>>
taskVars == <<pc, builder, conn, ext, idx, result>>

Init ==
    /\ mgr = NoMgr
    /\ poolMgr = NoMgr
    /\ pc = [t \in Tasks |-> "idle"]
    /\ builder = [t \in Tasks |-> NoBuilder]
    /\ conn = [t \in Tasks |-> 0]
    /\ ext = [t \in Tasks |-> <<>>]
    /\ idx = [t \in Tasks |-> 0]
    /\ result = [t \in Tasks |-> Pending]
    /\ conns = <<>>
    /\ lastOp = NoOp

\* connections the pool has received from a successful connect()
Pooled == {result[t].conn : t \in {u \in Tasks : result[u].tag = "Ok"}}

\* ---- construction surface (lib.rs:93-171) --------------------------------
new_local(path) ==
    /\ mgr = NoMgr
    /\ mgr' = Local(path, None)
    /\ UNCHANGED <<poolMgr, taskVars, conns, lastOp>>

\* variant of new_remote that leaves the token out
new_remote_no_token(url, token) ==
    /\ mgr = NoMgr
    /\ mgr' = Remote(url, "-")
    /\ UNCHANGED <<poolMgr, taskVars, conns, lastOp>>

new_remote(url, token) ==
    /\ mgr = NoMgr
    /\ mgr' = Remote(url, token)
    /\ UNCHANGED <<poolMgr, taskVars, conns, lastOp>>

new_local_replica(path) ==
    /\ mgr = NoMgr
    /\ mgr' = LocalReplica(path, None)
    /\ UNCHANGED <<poolMgr, taskVars, conns, lastOp>>

new_remote_replica(path, url, token) ==
    /\ mgr = NoMgr
    /\ mgr' = RemoteReplica(path, url, token, None, None)
    /\ UNCHANGED <<poolMgr, taskVars, conns, lastOp>>

\* variant of extensions() that writes through to the manager the pool holds
extensions_shared(extensions_) ==
    /\ "extensions" \in mgr.fields
    /\ mgr' = [mgr EXCEPT !.extensions = Some(extensions_)]
    /\ poolMgr' = IF poolMgr = NoMgr THEN poolMgr ELSE mgr'
    /\ UNCHANGED <<taskVars, conns, lastOp>>

\* extensions(&mut self, ..) exists for Local, LocalReplica and RemoteReplica
extensions(extensions_) ==
    /\ "extensions" \in mgr.fields
    /\ mgr' = [mgr EXCEPT !.extensions = Some(extensions_)]
    /\ UNCHANGED <<poolMgr, taskVars, conns, lastOp>>

\* sync_interval(&mut self, ..) exists for RemoteReplica only
sync_interval(interval) ==
    /\ "sync_interval" \in mgr.fields
    /\ mgr' = [mgr EXCEPT !.sync_interval = Some(interval)]
    /\ UNCHANGED <<poolMgr, taskVars, conns, lastOp>>

\* bb8::Pool::builder().build(manager): the pool takes a manager by value;
\* the caller passes a clone and may keep (and keep mutating) its own value
BuildPool ==
    /\ mgr # NoMgr
    /\ poolMgr = NoMgr
    /\ poolMgr' = mgr
    /\ UNCHANGED <<mgr, taskVars, conns, lastOp>>

\* ---- connect() (lib.rs:178-191, 205-210, 224-237, 251-267) ---------------
\* a connect() future returns res; a connection it opened but does not
\* return is dropped with it
Return(t, res) ==
    /\ result' = [result EXCEPT ![t] = res]
    /\ pc' = [pc EXCEPT ![t] = "done"]

DropConn(t) ==
    IF conn[t] # 0 /\ conn[t] <= Len(conns)
    THEN [conns EXCEPT ![conn[t]].dropped = TRUE]
    ELSE conns

LogCall(c, e) == [conns EXCEPT ![c].log = Append(@, e)]

\* the pool polls connect(): the builder is made from the source, with the
\* sync interval when one is set, and the future suspends in build().await
\* (futures are numbered in the order the pool starts them)
Connect(t) ==
    /\ poolMgr # NoMgr
    /\ pc[t] = "idle"
    /\ \A u \in Tasks : u < t => pc[u] # "idle"
    /\ builder' = [builder EXCEPT ![t] = poolMgr]
    /\ pc' = [pc EXCEPT ![t] = "build"]
    /\ UNCHANGED <<mgr, poolMgr, conn, ext, idx, result, conns, lastOp>>

\* builder.build().await completes
Build(t) ==
    /\ pc[t] = "build"
    /\ \/ /\ pc' = [pc EXCEPT ![t] = "db_connect"]
          /\ UNCHANGED result
       \/ Return(t, Err(From_libsql(EngineError("build", 0))))
    /\ UNCHANGED <<mgr, poolMgr, builder, conn, ext, idx, conns, lastOp>>

\* variant of db.connect() in which the manager hands out a cached connection
DbConnectCached(t) ==
    /\ pc[t] = "db_connect"
    /\ conns' = IF conns = <<>> THEN <<NewConnection>> ELSE conns
    /\ conn' = [conn EXCEPT ![t] = 1]
    /\ IF builder[t].kind = "Remote"
       THEN Return(t, Ok(1))
       ELSE /\ pc' = [pc EXCEPT ![t] = "closure"]
            /\ UNCHANGED result
    /\ UNCHANGED <<mgr, poolMgr, builder, ext, idx, lastOp>>

\* .and_then(|db| db.connect()); the Remote manager returns the connection
\* as it is, the others pass it to the extension closure
DbConnect(t) ==
    /\ pc[t] = "db_connect"
    /\ \/ /\ conns' = Append(conns, NewConnection)
          /\ conn' = [conn EXCEPT ![t] = Len(conns) + 1]
          /\ IF builder[t].kind = "Remote"
             THEN Return(t, Ok(Len(conns) + 1))
             ELSE /\ pc' = [pc EXCEPT ![t] = "closure"]
                  /\ UNCHANGED result
       \/ /\ Return(t, Err(From_libsql(EngineError("connect", 0))))
          /\ UNCHANGED <<conn, conns>>
    /\ UNCHANGED <<mgr, poolMgr, builder, ext, idx, lastOp>>

\* let Some(ext) = self.inner.extensions.clone() else { return Ok(conn) };
LetSomeExt(t) ==
    /\ pc[t] = "closure"
    /\ IF poolMgr.extensions = None
       THEN /\ Return(t, Ok(conn[t]))
            /\ UNCHANGED ext
       ELSE /\ ext' = [ext EXCEPT ![t] = poolMgr.extensions[1]]
            /\ pc' = [pc EXCEPT ![t] = "enable"]
            /\ UNCHANGED result
    /\ UNCHANGED <<mgr, poolMgr, builder, conn, idx, conns, lastOp>>

\* variant of the enable step that goes on to the loads without enabling
EnableSkipped(t) ==
    /\ pc[t] = "enable"
    /\ pc' = [pc EXCEPT ![t] = "load"]
    /\ idx' = [idx EXCEPT ![t] = 1]
    /\ UNCHANGED <<mgr, poolMgr, builder, conn, ext, result, conns, lastOp>>

\* conn.load_extension_enable()?;
Enable(t) ==
    /\ pc[t] = "enable"
    /\ \/ /\ conns' = [LogCall(conn[t], Event("load_extension_enable", 0, TRUE))
                          EXCEPT ![conn[t]].ext_enabled = TRUE]
          /\ pc' = [pc EXCEPT ![t] = "load"]
          /\ idx' = [idx EXCEPT ![t] = 1]
          /\ UNCHANGED result
       \/ /\ conns' = [LogCall(conn[t], Event("load_extension_enable", 0, FALSE))
                          EXCEPT ![conn[t]].dropped = TRUE]
          /\ Return(t, Err(From_libsql(EngineError("load_extension_enable", 0))))
          /\ UNCHANGED idx
    /\ UNCHANGED <<mgr, poolMgr, builder, conn, ext, lastOp>>

\* variant of the load loop that ignores a failed load and goes on
LoadContinue(t) ==
    /\ pc[t] = "load"
    /\ IF idx[t] > Len(ext[t])
       THEN /\ pc' = [pc EXCEPT ![t] = "disable"]
            /\ UNCHANGED <<idx, conns>>
       ELSE /\ \E ok \in BOOLEAN :
                 conns' = LogCall(conn[t], Event("load_extension", ext[t][idx[t]], ok))
            /\ idx' = [idx EXCEPT ![t] = @ + 1]
            /\ UNCHANGED pc
    /\ UNCHANGED <<mgr, poolMgr, builder, conn, ext, result, lastOp>>

\* for path in ext { conn.load_extension(path, None)?; }
Load(t) ==
    /\ pc[t] = "load"
    /\ IF idx[t] > Len(ext[t])
       THEN /\ pc' = [pc EXCEPT ![t] = "disable"]
            /\ UNCHANGED <<idx, result, conns>>
       ELSE LET path == ext[t][idx[t]] IN
            \/ /\ conns' = LogCall(conn[t], Event("load_extension", path, TRUE))
               /\ idx' = [idx EXCEPT ![t] = @ + 1]
               /\ UNCHANGED <<pc, result>>
            \/ /\ conns' = [LogCall(conn[t], Event("load_extension", path, FALSE))
                               EXCEPT ![conn[t]].dropped = TRUE]
               /\ Return(t, Err(From_libsql(EngineError("load_extension", path))))
               /\ UNCHANGED idx
    /\ UNCHANGED <<mgr, poolMgr, builder, conn, ext, lastOp>>

\* variant of the last step that returns the connection without disabling
DisableSkipped(t) ==
    /\ pc[t] = "disable"
    /\ Return(t, Ok(conn[t]))
    /\ UNCHANGED <<mgr, poolMgr, builder, conn, ext, idx, conns, lastOp>>

\* conn.load_extension_disable()?; Ok(conn)
Disable(t) ==
    /\ pc[t] = "disable"
    /\ \/ /\ conns' = [LogCall(conn[t], Event("load_extension_disable", 0, TRUE))
                          EXCEPT ![conn[t]].ext_enabled = FALSE]
          /\ Return(t, Ok(conn[t]))
       \/ /\ conns' = [LogCall(conn[t], Event("load_extension_disable", 0, FALSE))
                          EXCEPT ![conn[t]].dropped = TRUE]
          /\ Return(t, Err(From_libsql(EngineError("load_extension_disable", 0))))
    /\ UNCHANGED <<mgr, poolMgr, builder, conn, ext, idx, lastOp>>

\* variant in which the extension loads are suspension points too
SuspensionPointsWithLoad == {"build", "load"}

\* the only point where connect() yields: `builder.build().await`
SuspensionPoints == {"build"}

\* the pool drops an in-flight connect() future (shutdown, timeout); a
\* future can only be dropped while it is suspended
Cancel(t) ==
    /\ pc[t] \in SuspensionPoints
    /\ pc' = [pc EXCEPT ![t] = "cancelled"]
    /\ conns' = DropConn(t)
    /\ UNCHANGED <<mgr, poolMgr, builder, conn, ext, idx, result, lastOp>>

\* ---- is_valid / has_broken (lib.rs:193-197 and the three copies) ---------
\* conn.execute_batch(sql): fails when the transport is closed
execute_batch(c, sql) ==
    IF conns[c].healthy THEN [ok |-> TRUE, err |-> EngineError("-", 0)]
    ELSE [ok |-> FALSE, err |-> EngineError("execute_batch", 0)]

\* variant of is_valid that discards the statement's error
is_valid_lenient(c) ==
    LET r == execute_batch(c, "SELECT 1;") IN
    [op |-> "is_valid", conn |-> c, stmt |-> "SELECT 1;", stmt_ok |-> r.ok,
     ok |-> TRUE, err |-> NoError, broken |-> FALSE, after_failed_valid |-> FALSE]

\* Ok(conn.execute_batch("SELECT 1;").await.map(|_| ())?)
is_valid(c) ==
    LET r == execute_batch(c, "SELECT 1;") IN
    [op |-> "is_valid", conn |-> c, stmt |-> "SELECT 1;", stmt_ok |-> r.ok,
     ok |-> r.ok, err |-> IF r.ok THEN NoError ELSE From_libsql(r.err),
     broken |-> FALSE, after_failed_valid |-> FALSE]

\* variant of has_broken that reports a closed transport
has_broken_probe(c) ==
    [op |-> "has_broken", conn |-> c, stmt |-> "-", stmt_ok |-> FALSE,
     ok |-> TRUE, err |-> NoError, broken |-> ~conns[c].healthy,
     after_failed_valid |->
        (lastOp.op = "is_valid" /\ lastOp.conn = c /\ ~lastOp.ok)]

\* fn has_broken(&self, _: &mut Connection) -> bool { false }
has_broken(c) ==
    [op |-> "has_broken", conn |-> c, stmt |-> "-", stmt_ok |-> FALSE,
     ok |-> TRUE, err |-> NoError, broken |-> FALSE,
     after_failed_valid |->
        (lastOp.op = "is_valid" /\ lastOp.conn = c /\ ~lastOp.ok)]

IsValid(c) ==
    /\ c \in Pooled
    /\ lastOp' = is_valid(c)
    /\ UNCHANGED <<mgr, poolMgr, taskVars, conns>>

HasBroken(c) ==
    /\ c \in Pooled
    /\ lastOp' = has_broken(c)
    /\ UNCHANGED <<mgr, poolMgr, taskVars, conns>>

\* environment: the transport under a pooled connection is forcibly closed
CloseTransport(c) ==
    /\ c \in Pooled
    /\ conns[c].healthy
    /\ conns' = [conns EXCEPT ![c].healthy = FALSE]
    /\ UNCHANGED <<mgr, poolMgr, taskVars, lastOp>>

Next ==
    \/ \E path \in Paths : new_local(path)
    \/ \E url \in Urls, token \in Tokens : new_remote(url, token)
    \/ \E path \in Paths : new_local_replica(path)
    \/ \E path \in Paths, url \in Urls, token \in Tokens :
          new_remote_replica(path, url, token)
    \/ \E e \in (IF poolMgr = NoMgr THEN ExtLists ELSE LateExtLists) : extensions(e)
    \/ \E i \in Intervals : sync_interval(i)
    \/ BuildPool
    \/ \E t \in Tasks : Connect(t)
    \/ \E t \in Tasks : Build(t)
    \/ \E t \in Tasks : DbConnect(t)
    \/ \E t \in Tasks : LetSomeExt(t)
    \/ \E t \in Tasks : Enable(t)
    \/ \E t \in Tasks : Load(t)
    \/ \E t \in Tasks : Disable(t)
    \/ \E t \in Tasks : Cancel(t)
    \/ \E c \in 1..Len(conns) : IsValid(c)
    \/ \E c \in 1..Len(conns) : HasBroken(c)
    \/ \E c \in 1..Len(conns) : CloseTransport(c)

Spec == Init /\ [][Next]_vars

\* ---- properties ----------------------------------------------------------
Conns == 1..Len(conns)
Log(c) == conns[c].log
LoadEvents(c) == SelectSeq(Log(c), LAMBDA e : e.op = "load_extension")
LastEvent(c) == Log(c)[Len(Log(c))]
Failed(c) == \E i \in 1..Len(Log(c)) : ~Log(c)[i].ok
ExtensionKinds == {"Local", "LocalReplica", "RemoteReplica"}
Configured == poolMgr.extensions # None
ConfiguredList == poolMgr.extensions[1]

\* the engine calls of a connect() that ran to the end without an error
FullLog ==
    IF Configured
    THEN <<Event("load_extension_enable", 0, TRUE)>>
         \o [i \in 1..Len(ConfiguredList) |-> Event("load_extension", ConfiguredList[i], TRUE)]
         \o <<Event("load_extension_disable", 0, TRUE)>>
    ELSE <<>>

\* C1: for the Local, LocalReplica and RemoteReplica managers, whatever the
\* extension list (none, empty, non-empty), a connection that connect()
\* returned as Ok has extension loading disabled.
C1_ReturnedDisabled ==
    \A t \in Tasks :
        (poolMgr.kind \in ExtensionKinds /\ result[t].tag = "Ok")
            => ~conns[result[t].conn].ext_enabled

\* a RemoteReplica connect() with two extensions has returned its connection
C1_Witness ==
    \E t \in Tasks :
        /\ poolMgr.kind = "RemoteReplica"
        /\ Configured /\ Len(ConfiguredList) = 2
        /\ result[t].tag = "Ok"
        /\ Log(result[t].conn) = FullLog

\* C2: the configured paths are loaded in the configured order and loading
\* stops at the first failure: when the k-th load fails, the k-1 paths before
\* it were loaded, nothing after it is attempted, connect() returns the error
\* of that load, and no connection is returned.
C2_LoadInOrderFailFast ==
    \A t \in Tasks :
        (conn[t] # 0 /\ Configured) =>
            LET loads == LoadEvents(conn[t])
                k == Len(loads)
            IN  /\ k <= Len(ConfiguredList)
                /\ \A i \in 1..k : loads[i].arg = ConfiguredList[i]
                /\ \A i \in 1..(k - 1) : loads[i].ok
                /\ result[t].tag = "Ok" => (k = Len(ConfiguredList) /\ \A i \in 1..k : loads[i].ok)
                /\ (k > 0 /\ ~loads[k].ok) =>
                      /\ pc[t] = "done"
                      /\ LastEvent(conn[t]) = loads[k]
                      /\ result[t] = Err(From_libsql(EngineError("load_extension", ConfiguredList[k])))
                      /\ conn[t] \notin Pooled

\* the first of two extensions loaded and the second failed
C2_Witness ==
    \E t \in Tasks :
        /\ conn[t] # 0 /\ Configured /\ Len(ConfiguredList) = 2
        /\ Len(LoadEvents(conn[t])) = 2
        /\ LoadEvents(conn[t])[1].ok /\ ~LoadEvents(conn[t])[2].ok
        /\ result[t].tag = "Err"

\* C3: in all four managers a failed engine step makes connect() return the
\* LibsqlError variant wrapping that step's error and no connection; connect()
\* returns Ok only when every step it performed succeeded.
C3_EngineErrorsWrapped ==
    \A t \in Tasks :
        /\ (pc[t] = "done") <=> (result[t].tag \in {"Ok", "Err"})
        /\ result[t].tag = "Err" =>
              /\ result[t].err.variant = "LibsqlError"
              /\ result[t].conn = 0
              /\ IF conn[t] = 0
                 THEN result[t].err.source \in {EngineError("build", 0), EngineError("connect", 0)}
                 ELSE /\ Log(conn[t]) # <<>>
                      /\ ~LastEvent(conn[t]).ok
                      /\ result[t].err.source =
                            EngineError(LastEvent(conn[t]).op, LastEvent(conn[t]).arg)
                      /\ conn[t] \notin Pooled
        /\ result[t].tag = "Ok" =>
              /\ result[t].conn = conn[t]
              /\ conn[t] # 0
              /\ Log(conn[t]) = FullLog
        /\ (conn[t] # 0 /\ Failed(conn[t])) => result[t].tag = "Err"

\* a LocalReplica connect() failed in its last step, load_extension_disable
C3_Witness ==
    \E t \in Tasks :
        /\ poolMgr.kind = "LocalReplica"
        /\ result[t] = Err(From_libsql(EngineError("load_extension_disable", 0)))
        /\ conn[t] # 0

\* C4: has_broken() returns false for every connection in every state, also
\* right after is_valid() failed on it, and leaves the connections and the
\* manager as they were.
C4_HasBrokenFalse ==
    /\ [](lastOp.op = "has_broken" => (~lastOp.broken /\ lastOp.ok))
    /\ [][(lastOp' # lastOp /\ lastOp'.op = "has_broken")
            => (conns' = conns /\ poolMgr' = poolMgr /\ result' = result)]_vars

\* has_broken() was called on a connection right after is_valid() failed on it
C4_Witness ==
    /\ lastOp.op = "has_broken"
    /\ lastOp.after_failed_valid
    /\ ~conns[lastOp.conn].healthy

\* C5: is_valid() runs "SELECT 1;" and returns Ok exactly when the statement
\* succeeds, otherwise the LibsqlError variant wrapping the statement's error;
\* a healthy connection is reported valid and an unusable one is not.
C5_IsValidReflectsStatement ==
    /\ [](lastOp.op = "is_valid" =>
            /\ lastOp.stmt = "SELECT 1;"
            /\ lastOp.ok <=> lastOp.stmt_ok
            /\ lastOp.ok => lastOp.err = NoError
            /\ ~lastOp.ok =>
                  /\ lastOp.err = From_libsql(EngineError("execute_batch", 0))
                  /\ ~conns[lastOp.conn].healthy)
    /\ [][(lastOp' # lastOp /\ lastOp'.op = "is_valid")
            => (lastOp'.ok <=> conns[lastOp'.conn].healthy)]_vars

\* is_valid() failed on a connection whose transport was closed
C5_Witness ==
    /\ lastOp.op = "is_valid"
    /\ ~lastOp.ok
    /\ ~conns[lastOp.conn].healthy

\* C6: a connect() future is cancelled only where it has no connection yet,
\* so cancellation never falls between the enable and the disable step; no
\* connection the pool holds has extension loading enabled, and nothing a
\* cancelled future owned is in the pool.
C6_CancelLeaksNothing ==
    /\ \A t \in Tasks :
          pc[t] = "cancelled" =>
              /\ conn[t] = 0
              /\ result[t] = Pending
    /\ \A c \in Pooled : ~conns[c].ext_enabled /\ ~conns[c].dropped
    /\ \A c \in Conns :
          (conns[c].ext_enabled /\ ~conns[c].dropped) =>
              \E t \in Tasks : conn[t] = c /\ pc[t] \in {"load", "disable"}

\* one connect() was cancelled while another loaded extensions and returned
C6_Witness ==
    \E t, u \in Tasks :
        /\ pc[t] = "cancelled"
        /\ result[u].tag = "Ok"
        /\ Configured /\ ConfiguredList # <<>>
        /\ Log(result[u].conn) = FullLog

\* C7: once the pool holds a manager its source never changes, whatever
\* connect(), is_valid(), has_broken() and the caller's mutators do.
C7_SourceFrozen ==
    [][poolMgr # NoMgr => poolMgr' = poolMgr]_vars

\* the caller changed its own manager after the handoff and a connect() ran
C7_Witness ==
    /\ poolMgr # NoMgr
    /\ mgr # poolMgr
    /\ \E t \in Tasks : result[t].tag = "Ok"
    /\ lastOp.op = "has_broken"

RequiredBase(m) ==
    /\ m.kind \in {"Local", "LocalReplica"} => ("path" \in m.fields /\ m.path \in Paths)
    /\ m.kind = "Remote" =>
          /\ "url" \in m.fields /\ m.url \in Urls
          /\ "token" \in m.fields /\ m.token \in Tokens
    /\ m.kind = "RemoteReplica" =>
          /\ "path" \in m.fields /\ m.path \in Paths
          /\ "url" \in m.fields /\ m.url \in Urls
          /\ "token" \in m.fields /\ m.token \in Tokens

\* C8 as stated: every constructed manager has its required fields, a
\* RemoteReplica manager a sync interval among them.
C8_Original ==
    mgr # NoMgr =>
        /\ RequiredBase(mgr)
        /\ mgr.kind = "RemoteReplica" => mgr.sync_interval # None

\* C8, amended: every constructed manager has its path / url / token; the
\* sync interval of a RemoteReplica manager is optional and unset as
\* constructed (and so is every extension list).
C8_RequiredFields ==
    /\ [](mgr # NoMgr =>
            /\ RequiredBase(mgr)
            /\ mgr.kind = "RemoteReplica" =>
                  /\ "sync_interval" \in mgr.fields
                  /\ mgr.sync_interval \in {None} \cup {Some(i) : i \in Intervals})
    /\ [][(mgr = NoMgr /\ mgr' # NoMgr)
            => (mgr'.sync_interval = None /\ mgr'.extensions = None)]_vars

\* a RemoteReplica manager as new_remote_replica returned it
C8_Witness ==
    /\ mgr.kind = "RemoteReplica"
    /\ mgr.sync_interval = None
    /\ poolMgr = NoMgr

EnableFirst(c) ==
    \A i \in 1..Len(Log(c)) :
        Log(c)[i].op \in {"load_extension", "load_extension_disable"} =>
            (i > 1 /\ Log(c)[1] = Event("load_extension_enable", 0, TRUE))

\* C9 as stated: the enable step precedes every load and, whether connect()
\* returns the connection or an error, extension loading is disabled again
\* before it completes.
C9_Original ==
    \A t \in Tasks :
        (conn[t] # 0 /\ Log(conn[t]) # <<>> /\ Log(conn[t])[1].ok) =>
            /\ EnableFirst(conn[t])
            /\ pc[t] = "done" =>
                  /\ ~conns[conn[t]].ext_enabled
                  /\ LastEvent(conn[t]) = Event("load_extension_disable", 0, TRUE)

\* C9, amended: the enable step precedes every load; when connect() returns
\* the connection, extension loading was disabled after the last load; when
\* a load or the disable step fails, connect() ends without a successful
\* disable and the connection is dropped, never returned.
C9_EnableLoadDisable ==
    \A t \in Tasks :
        (conn[t] # 0 /\ Log(conn[t]) # <<>>) =>
            /\ Log(conn[t])[1].op = "load_extension_enable"
            /\ EnableFirst(conn[t])
            /\ conns[conn[t]].ext_enabled =>
                  (Log(conn[t])[1].ok /\ \A i \in 1..Len(Log(conn[t])) :
                        Log(conn[t])[i] # Event("load_extension_disable", 0, TRUE))
            /\ result[t].tag = "Ok" =>
                  /\ ~conns[conn[t]].ext_enabled
                  /\ LastEvent(conn[t]) = Event("load_extension_disable", 0, TRUE)
            /\ result[t].tag = "Err" =>
                  /\ conns[conn[t]].dropped
                  /\ conn[t] \notin Pooled
                  /\ LastEvent(conn[t]) # Event("load_extension_disable", 0, TRUE)

\* a connect() enabled loading, loaded two extensions, disabled and returned
C9_Witness ==
    \E t \in Tasks :
        /\ result[t].tag = "Ok"
        /\ Len(Log(conn[t])) = 4
        /\ LastEvent(conn[t]) = Event("load_extension_disable", 0, TRUE)

\* C10: two connect() calls never hold or return the same connection, and a
\* step that changes a connection's extension state (its flag, the calls made
\* on it) is a step of the one connect() that opened it.
C10_FreshAndIndependent ==
    /\ [](\A t, u \in Tasks : (t # u /\ conn[t] # 0) => conn[t] # conn[u])
    /\ [](Cardinality(Pooled) = Cardinality({t \in Tasks : result[t].tag = "Ok"}))
    /\ [][\A c \in Conns :
            (conns'[c].ext_enabled # conns[c].ext_enabled \/ conns'[c].log # conns[c].log)
                => \E t \in Tasks :
                      /\ conn[t] = c
                      /\ pc[t] \in {"enable", "load", "disable"}
                      /\ pc'[t] # pc[t] \/ idx'[t] # idx[t]
                      /\ \A u \in Tasks \ {t} : conn[u] # c /\ pc'[u] = pc[u]]_vars

\* two connect() calls of one manager both loaded extensions and returned
C10_Witness ==
    \E t, u \in Tasks :
        /\ t # u
        /\ result[t].tag = "Ok" /\ result[u].tag = "Ok"
        /\ result[t].conn # result[u].conn
        /\ Configured /\ ConfiguredList # <<>>

====
